---- MODULE Spec2Model ----
(***************************************************************************)
(* Model of streamlit_app.py: the cached load-and-clean routine            *)
(* import_excel_from_github (fuzzy normalisation of the categorical        *)
(* columns, the derived columns) and the dashboard script that calls it on *)
(* every run of the page.                                                  *)
(*                                                                         *)
(* A Python str is a sequence of one-character strings; a cell of the      *)
(* DataFrame is a record [kind, val].                                      *)
(***************************************************************************)
EXTENDS Integers, Sequences, FiniteSets, TLC

(***************************************************************************)
(* Characters and the str methods the cleaning code calls.                 *)
(***************************************************************************)
LowerChars == <<"a","b","c","d","e","f","g","h","i","j","k","l","m",
                "n","o","p","q","r","s","t","u","v","w","x","y","z">>
UpperChars == <<"A","B","C","D","E","F","G","H","I","J","K","L","M",
                "N","O","P","Q","R","S","T","U","V","W","X","Y","Z">>
DigitChars == <<"0","1","2","3","4","5","6","7","8","9">>
OtherChars == <<" ","/","&","(",")","-","?">>

Range(s) == {s[i] : i \in DOMAIN s}

CharSet == Range(LowerChars) \cup Range(UpperChars) \cup Range(DigitChars) \cup Range(OtherChars)

\* Code-point order of the alphanumeric characters (digits < upper < lower).
OrdSeq == DigitChars \o UpperChars \o LowerChars

OrdTable == [c \in Range(OrdSeq) |-> CHOOSE i \in DOMAIN OrdSeq : OrdSeq[i] = c]

LowerTable == [c \in CharSet |->
                 IF c \in Range(UpperChars)
                 THEN LowerChars[CHOOSE i \in DOMAIN UpperChars : UpperChars[i] = c]
                 ELSE c]

UpperTable == [c \in CharSet |->
                 IF c \in Range(LowerChars)
                 THEN UpperChars[CHOOSE i \in DOMAIN LowerChars : LowerChars[i] = c]
                 ELSE c]

IsAlnum(c) == c \in Range(OrdSeq)

\* str.lower()
Lower(s) == [i \in DOMAIN s |-> LowerTable[s[i]]]

\* str.upper()
Upper(s) == [i \in DOMAIN s |-> UpperTable[s[i]]]

RECURSIVE LStrip(_)
LStrip(s) == IF s # <<>> /\ Head(s) = " " THEN LStrip(Tail(s)) ELSE s

RECURSIVE RStrip(_)
RStrip(s) == IF s # <<>> /\ s[Len(s)] = " " THEN RStrip(SubSeq(s, 1, Len(s) - 1)) ELSE s

\* str.strip()
Strip(s) == RStrip(LStrip(s))

\* str.split(): the maximal runs of non-blank characters, in order.
RECURSIVE SplitFrom(_, _, _)
SplitFrom(s, cur, acc) ==
    IF s = <<>> THEN (IF cur = <<>> THEN acc ELSE Append(acc, cur))
    ELSE IF Head(s) = " "
         THEN SplitFrom(Tail(s), <<>>, IF cur = <<>> THEN acc ELSE Append(acc, cur))
         ELSE SplitFrom(Tail(s), Append(cur, Head(s)), acc)

Split(s) == SplitFrom(s, <<>>, <<>>)

\* " ".join(tokens)
RECURSIVE Join(_)
Join(toks) ==
    IF toks = <<>> THEN <<>>
    ELSE IF Len(toks) = 1 THEN toks[1]
    ELSE toks[1] \o <<" ">> \o Join(Tail(toks))

\* s < t in Python's string order (tokens are alphanumeric here).
RECURSIVE StrLess(_, _)
StrLess(s, t) ==
    IF t = <<>> THEN FALSE
    ELSE IF s = <<>> THEN TRUE
    ELSE IF Head(s) = Head(t) THEN StrLess(Tail(s), Tail(t))
    ELSE OrdTable[Head(s)] < OrdTable[Head(t)]

RECURSIVE InsertSorted(_, _)
InsertSorted(tok, sorted) ==
    IF sorted = <<>> THEN <<tok>>
    ELSE IF StrLess(tok, Head(sorted)) THEN <<tok>> \o sorted
    ELSE <<Head(sorted)>> \o InsertSorted(tok, Tail(sorted))

\* sorted(tokens)
RECURSIVE SortTokens(_)
SortTokens(toks) ==
    IF toks = <<>> THEN <<>> ELSE InsertSorted(Head(toks), SortTokens(Tail(toks)))

\* sorted(set(tokens)): duplicates dropped
RECURSIVE Dedup(_)
Dedup(toks) ==
    IF toks = <<>> THEN <<>>
    ELSE IF Head(toks) \in Range(Tail(toks)) THEN Dedup(Tail(toks))
    ELSE <<Head(toks)>> \o Dedup(Tail(toks))

SelectTokens(toks, S) == SelectSeq(toks, LAMBDA t : t \in S)

(***************************************************************************)
(* thefuzz: process.extractOne with its defaults (processor full_process,  *)
(* scorer WRatio, score_cutoff 0).  A similarity is kept exact, as a pair  *)
(* <<n, d>> standing for the fraction n / d.                               *)
(***************************************************************************)
Max2(a, b) == IF a < b THEN b ELSE a

FracLess(p, q) == p[1] * q[2] < q[1] * p[2]

FracMax(p, q) == IF FracLess(p, q) THEN q ELSE p

FracMaxOver(S) == CHOOSE p \in S : \A q \in S : ~FracLess(p, q)

\* utils.full_process: non-alphanumerics to blanks, lower case, strip.
FullProcess(s) == Strip([i \in DOMAIN s |-> IF IsAlnum(s[i]) THEN LowerTable[s[i]] ELSE " "])

\* One row of the longest-common-subsequence table; position j + 1 holds column j.
RECURSIVE LcsRow(_, _, _, _)
LcsRow(c, b, prev, cur) ==
    LET j == Len(cur) IN
    IF j > Len(b) THEN cur
    ELSE LcsRow(c, b, prev,
                Append(cur, IF j = 0 THEN 0
                            ELSE IF c = b[j] THEN prev[j] + 1
                            ELSE Max2(prev[j + 1], cur[j])))

RECURSIVE LcsRows(_, _, _)
LcsRows(a, b, prev) ==
    IF a = <<>> THEN prev[Len(b) + 1]
    ELSE LcsRows(Tail(a), b, LcsRow(Head(a), b, prev, <<>>))

LcsLen(a, b) == LcsRows(a, b, [j \in 1..(Len(b) + 1) |-> 0])

\* fuzz.ratio: the normalised Indel similarity, 2 * lcs / (len1 + len2).
Ratio(s1, s2) ==
    IF Len(s1) + Len(s2) = 0 THEN <<1, 1>>
    ELSE <<2 * LcsLen(s1, s2), Len(s1) + Len(s2)>>

\* The windows of the longer string a shorter one of length m is aligned with:
\* its prefixes shorter than m, every substring of length m, its suffixes
\* shorter than m.
Windows(n, m) ==
    {<<1, i>> : i \in 1..(m - 1)}
      \cup {<<i + 1, i + m>> : i \in 0..(n - m)}
      \cup {<<i + 1, n>> : i \in (n - m + 1)..(n - 1)}

PartialRatioImpl(shorter, longer) ==
    FracMaxOver({Ratio(shorter, SubSeq(longer, w[1], w[2])) :
                    w \in Windows(Len(longer), Len(shorter))})

\* fuzz.partial_ratio
PartialRatio(s1, s2) ==
    IF s1 = <<>> \/ s2 = <<>> THEN <<0, 1>>
    ELSE IF Len(s1) < Len(s2) THEN PartialRatioImpl(s1, s2)
    ELSE IF Len(s2) < Len(s1) THEN PartialRatioImpl(s2, s1)
    ELSE FracMax(PartialRatioImpl(s1, s2), PartialRatioImpl(s2, s1))

\* fuzz.token_sort_ratio
TokenSortRatio(s1, s2) ==
    Ratio(Join(SortTokens(Split(s1))), Join(SortTokens(Split(s2))))

\* fuzz.token_set_ratio
TokenSetRatio(s1, s2) ==
    LET ta == Dedup(Split(s1))
        tb == Dedup(Split(s2))
        sect == SortTokens(SelectTokens(ta, Range(tb)))
        ab == Join(SortTokens(SelectTokens(ta, Range(ta) \ Range(tb))))
        ba == Join(SortTokens(SelectTokens(tb, Range(tb) \ Range(ta))))
        sectLen == Len(Join(sect))
        sep == IF sectLen # 0 THEN 1 ELSE 0
        sectAbLen == sectLen + sep + Len(ab)
        sectBaLen == sectLen + sep + Len(ba)
        dist == Len(ab) + Len(ba) - 2 * LcsLen(ab, ba)
        result == <<sectAbLen + sectBaLen - dist, sectAbLen + sectBaLen>>
        sectAb == <<sectLen + sectAbLen - (sep + Len(ab)), sectLen + sectAbLen>>
        sectBa == <<sectLen + sectBaLen - (sep + Len(ba)), sectLen + sectBaLen>>
    IN  IF ta = <<>> \/ tb = <<>> THEN <<0, 1>>
        ELSE IF sect # <<>> /\ (ab = <<>> \/ ba = <<>>) THEN <<1, 1>>
        ELSE IF sectLen = 0 THEN result
        ELSE FracMax(result, FracMax(sectAb, sectBa))

\* fuzz.token_ratio
TokenRatio(s1, s2) == FracMax(TokenSortRatio(s1, s2), TokenSetRatio(s1, s2))

\* fuzz.partial_token_ratio
PartialTokenRatio(s1, s2) ==
    LET sa == Split(s1)
        sb == Split(s2)
        ta == Dedup(sa)
        tb == Dedup(sb)
        ab == SortTokens(SelectTokens(ta, Range(ta) \ Range(tb)))
        ba == SortTokens(SelectTokens(tb, Range(tb) \ Range(ta)))
    IN  IF sa = <<>> \/ sb = <<>> THEN <<0, 1>>
        ELSE IF Range(ta) \cap Range(tb) # {} THEN <<1, 1>>
        ELSE FracMax(PartialRatio(Join(SortTokens(sa)), Join(SortTokens(sb))),
                     PartialRatio(Join(ab), Join(ba)))

\* A similarity r weighted by scale / 200, in points: the fraction n / d of 100.
Points(r, scale) == <<r[1] * scale, 2 * r[2]>>

\* fuzz.WRatio on two processed strings, in points (a fraction).
WRatio(p1, p2) ==
    LET len1 == Len(p1)
        len2 == Len(p2)
        lo == IF len1 < len2 THEN len1 ELSE len2
        hi == Max2(len1, len2)
        base == Points(Ratio(p1, p2), 200)
        partialScale == IF hi <= 8 * lo THEN 180 ELSE 120
        unbasePartial == IF hi <= 8 * lo THEN 171 ELSE 114
    IN  IF p1 = <<>> \/ p2 = <<>> THEN <<0, 1>>
        ELSE IF 2 * hi < 3 * lo
             THEN FracMax(base, Points(TokenRatio(p1, p2), 190))
             ELSE FracMax(FracMax(base, Points(PartialRatio(p1, p2), partialScale)),
                          Points(PartialTokenRatio(p1, p2), unbasePartial))

\* int(round(score)): Python rounds a tie to the even neighbour.
RoundScore(p) ==
    LET q == p[1] \div p[2]
        r == p[1] % p[2]
    IN  IF 2 * r < p[2] THEN q
        ELSE IF 2 * r > p[2] THEN q + 1
        ELSE IF q % 2 = 0 THEN q ELSE q + 1

\* The index of the first choice whose score no other choice exceeds.
BestIndex(scores) ==
    CHOOSE i \in DOMAIN scores :
        /\ \A j \in DOMAIN scores : ~FracLess(scores[i], scores[j])
        /\ \A j \in 1..(i - 1) : FracLess(scores[j], scores[i])

\* The score of every choice against the processed query, in order.
RECURSIVE ScoreAll(_, _)
ScoreAll(pq, choices) ==
    IF choices = <<>> THEN <<>>
    ELSE <<WRatio(pq, FullProcess(Head(choices)))>> \o ScoreAll(pq, Tail(choices))

\* process.extractOne(query, choices): the pair (choice, score).  With the
\* default score_cutoff of 0 every query gets a choice.
ExtractOne(query, choices) ==
    LET scores == ScoreAll(FullProcess(query), choices)
        best == BestIndex(scores)
    IN  <<choices[best], RoundScore(scores[best])>>

(***************************************************************************)
(* pandas: cells, columns and the DataFrame operations the code calls.     *)
(* A cell is [kind, val]: "str" (val the characters), "num" (val <<n>>),   *)
(* "ts" (a Timestamp, val <<t>>, t in half days since 2024-01-01 00:00),   *)
(* or one of the missing markers "NaN", "NaT", "NA" (val <<>>).  A         *)
(* DataFrame is a function from its column names to columns, a column a    *)
(* sequence of cells; pd.DataFrame() is the function with no column.       *)
(***************************************************************************)
Str(s) == [kind |-> "str", val |-> s]

Num(n) == [kind |-> "num", val |-> <<n>>]

Ts(t) == [kind |-> "ts", val |-> <<t>>]

NaN == [kind |-> "NaN", val |-> <<>>]

NaT == [kind |-> "NaT", val |-> <<>>]

NA == [kind |-> "NA", val |-> <<>>]

EmptyDataFrame == <<>>

\* pd.notna(x)
NotNa(c) == c.kind \notin {"NaN", "NaT", "NA"}

RECURSIVE IntToStr(_)
IntToStr(n) ==
    IF n < 10 THEN <<DigitChars[n + 1]>>
    ELSE IntToStr(n \div 10) \o <<DigitChars[(n % 10) + 1]>>

\* One cell of Series.astype(str): str(x), so that NaN becomes the text "nan".
AsTypeStr(c) ==
    IF c.kind = "str" THEN c
    ELSE IF c.kind = "num"
         THEN Str(IF c.val[1] < 0 THEN <<"-">> \o IntToStr(-c.val[1]) ELSE IntToStr(c.val[1]))
    ELSE IF c.kind = "NaN" THEN Str(<<"n","a","n">>)
    ELSE IF c.kind = "NaT" THEN Str(<<"N","a","T">>)
    ELSE Str(<<>>)

IsDigits(s) == s # <<>> /\ \A i \in DOMAIN s : s[i] \in Range(DigitChars)

RECURSIVE DigitsValue(_)
DigitsValue(s) ==
    IF s = <<>> THEN 0
    ELSE 10 * DigitsValue(SubSeq(s, 1, Len(s) - 1))
           + (CHOOSE d \in 0..9 : DigitChars[d + 1] = s[Len(s)])

\* One cell of pd.to_numeric(errors='coerce'): what does not parse is NaN.
ToNumeric(c) ==
    IF c.kind = "num" THEN c
    ELSE IF c.kind = "str" /\ IsDigits(Strip(c.val)) THEN Num(DigitsValue(Strip(c.val)))
    ELSE NaN

\* One cell of pd.to_datetime(errors='coerce').  The date cells of the
\* workbook are Timestamps already; the texts met in a date column here hold
\* no date, and coerce to NaT.
ToDatetime(c) == IF c.kind = "ts" THEN c ELSE NaT

\* Series.apply
Apply(col, F(_)) == [i \in DOMAIN col |-> F(col[i])]

\* 'name' in df.columns
HasColumn(df, name) == name \in DOMAIN df

\* df[name] = col
SetColumn(df, name, col) ==
    [k \in (DOMAIN df) \cup {name} |-> IF k = name THEN col ELSE df[k]]

\* The default na_values of the pandas readers that this alphabet can spell.
NaTexts ==
    { <<>>, <<"N","/","A">>, <<"N","A">>, <<"N","U","L","L">>, <<"N","a","N">>,
      <<"N","o","n","e">>, <<"n","/","a">>, <<"n","a","n">>, <<"n","u","l","l">> }

\* One cell of pd.read_excel: a blank cell, or a text cell holding one of the
\* default NA texts, is NaN.
ReadCell(c) == IF c.kind = "str" /\ c.val \in NaTexts THEN NaN ELSE c

\* pd.read_excel(BytesIO(response.content), sheet_name=sheet_name)
ReadExcel(sheet) == [k \in DOMAIN sheet |-> Apply(sheet[k], ReadCell)]

\* The same without the (?i) flag.
ReplaceMissingCellCaseSensitive(c) ==
    IF c.kind = "str" /\ c.val = <<"m","i","s","s","i","n","g">> THEN NaN ELSE c

\* df.replace(to_replace=r'(?i)^missing$', value=np.nan, regex=True)
ReplaceMissingCell(c) ==
    IF c.kind = "str" /\ Lower(c.val) = <<"m","i","s","s","i","n","g">> THEN NaN ELSE c

ReplaceMissing(df) == [k \in DOMAIN df |-> Apply(df[k], ReplaceMissingCell)]

\* df.rename(columns={...}): the new name of a column.
RenamedColumn(name) ==
    IF name = "State" THEN "Pt State"
    ELSE IF name = "Payment Submitted" THEN "Payment Submitted?"
    ELSE IF name = "Application Signed" THEN "Application Signed?"
    ELSE name

Rename(df) ==
    [k \in {RenamedColumn(n) : n \in DOMAIN df} |->
        df[CHOOSE n \in DOMAIN df : RenamedColumn(n) = k]]

(***************************************************************************)
(* The option lists of import_excel_from_github.                           *)
(***************************************************************************)
request_status_options ==
    <<<<"p","e","n","d","i","n","g">>,
      <<"a","p","p","r","o","v","e","d">>,
      <<"d","e","n","i","e","d">>,
      <<"c","o","m","p","l","e","t","e","d">>>>

application_signed_options ==
    <<<<"y","e","s">>,
      <<"n","o">>,
      <<"n","/","a">>>>

\* list(state_to_postal.keys())
state_names ==
    <<<<"N","e","b","r","a","s","k","a">>,
      <<"I","o","w","a">>,
      <<"K","a","n","s","a","s">>,
      <<"M","i","s","s","o","u","r","i">>,
      <<"S","o","u","t","h"," ","D","a","k","o","t","a">>,
      <<"W","y","o","m","i","n","g">>,
      <<"C","o","l","o","r","a","d","o">>,
      <<"M","i","n","n","e","s","o","t","a">>>>

\* state_to_postal.values(), in the order of the keys
state_codes ==
    <<<<"N","E">>,
      <<"I","A">>,
      <<"K","S">>,
      <<"M","O">>,
      <<"S","D">>,
      <<"W","Y">>,
      <<"C","O">>,
      <<"M","N">>>>

gender_options ==
    <<<<"m","a","l","e">>,
      <<"f","e","m","a","l","e">>,
      <<"t","r","a","n","s","g","e","n","d","e","r">>,
      <<"n","o","n","b","i","n","a","r","y">>,
      <<"d","e","c","l","i","n","e"," ","t","o"," ","a","n","s","w","e","r">>,
      <<"o","t","h","e","r">>>>

race_options ==
    <<<<"A","m","e","r","i","c","a","n"," ","I","n","d","i","a","n"," ","o","r"," ","A","l","a","s","k","a"," ","N","a","t","i","v","e">>,
      <<"A","s","i","a","n">>,
      <<"B","l","a","c","k"," ","o","r"," ","A","f","r","i","c","a","n"," ","A","m","e","r","i","c","a","n">>,
      <<"M","i","d","d","l","e"," ","E","a","s","t","e","r","n"," ","o","r"," ","N","o","r","t","h"," ","A","f","r","i","c","a","n">>,
      <<"N","a","t","i","v","e"," ","H","a","w","a","i","i","a","n"," ","o","r"," ","P","a","c","i","f","i","c"," ","I","s","l","a","n","d","e","r">>,
      <<"W","h","i","t","e">>,
      <<"d","e","c","l","i","n","e"," ","t","o"," ","a","n","s","w","e","r">>,
      <<"o","t","h","e","r">>,
      <<"t","w","o"," ","o","r"," ","m","o","r","e">>>>

insurance_options ==
    <<<<"m","e","d","i","c","a","r","e">>,
      <<"m","e","d","i","c","a","i","d">>,
      <<"m","e","d","i","c","a","r","e"," ","&"," ","m","e","d","i","c","a","i","d">>,
      <<"u","n","i","n","s","u","r","e","d">>,
      <<"p","r","i","v","a","t","e">>,
      <<"m","i","l","i","t","a","r","y">>,
      <<"u","n","k","n","o","w","n">>>>

marital_options ==
    <<<<"s","i","n","g","l","e">>,
      <<"m","a","r","r","i","e","d">>,
      <<"w","i","d","o","w","e","d">>,
      <<"d","i","v","o","r","c","e","d">>,
      <<"d","o","m","e","s","t","i","c"," ","p","a","r","t","n","e","r","s","h","i","p">>,
      <<"s","e","p","a","r","a","t","e","d">>>>

assistance_options ==
    <<<<"M","e","d","i","c","a","l"," ","S","u","p","p","l","i","e","s","/","P","r","e","s","c","r","i","p","t","i","o","n"," ","C","o","-","p","a","y","(","s",")">>,
      <<"F","o","o","d","/","G","r","o","c","e","r","i","e","s">>,
      <<"G","a","s">>,
      <<"O","t","h","e","r">>,
      <<"H","o","t","e","l">>,
      <<"H","o","u","s","i","n","g">>,
      <<"U","t","i","l","i","t","i","e","s">>,
      <<"C","a","r"," ","P","a","y","m","e","n","t">>,
      <<"P","h","o","n","e","/","I","n","t","e","r","n","e","t">>,
      <<"M","u","l","t","i","p","l","e">>>>

nan == <<"n","a","n">>

\* [i.lower() for i in assistance_options]
LoweredAssistanceOptions == [i \in DOMAIN assistance_options |-> Lower(assistance_options[i])]

\* state_to_postal.get(key, default)
StateToPostalGet(key, default) ==
    IF \E i \in DOMAIN state_names : state_names[i] = key
    THEN state_codes[CHOOSE i \in DOMAIN state_names : state_names[i] = key]
    ELSE default

\* 'non' in s
ContainsNon(s) ==
    \E i \in 1..(Len(s) - 2) : s[i] = "n" /\ s[i + 1] = "o" /\ s[i + 2] = "n"

(***************************************************************************)
(* The lambdas applied to the cells of each column.  Those applied after   *)
(* .astype(str) receive a "str" cell.                                      *)
(***************************************************************************)
\* Line 29: process.extractOne(x.lower().strip(), request_status_options)
RequestStatusMatch(x) == ExtractOne(Strip(Lower(x.val)), request_status_options)

RequestStatusLambda(x) ==
    IF NotNa(x) /\ Strip(Lower(x.val)) # nan
    THEN Str(RequestStatusMatch(x)[1])
    ELSE NaN

\* Line 35: process.extractOne(x.lower(), application_signed_options)
ApplicationSignedMatch(x) == ExtractOne(Lower(x.val), application_signed_options)

ApplicationSignedLambda(x) ==
    IF NotNa(x) THEN Str(ApplicationSignedMatch(x)[1]) ELSE Str(<<"N","/","A">>)

\* Line 43: process.extractOne(x, list(state_to_postal.keys()))
PtStateMatch(x) == ExtractOne(x.val, state_names)

PtStateLambda(x) ==
    IF NotNa(x) /\ x.val # nan
    THEN Str(StateToPostalGet(PtStateMatch(x)[1], x.val))
    ELSE x

\* Line 58: process.extractOne(x, gender_options)
GenderMatch(x) == ExtractOne(x.val, gender_options)

GenderLambda(x) ==
    IF NotNa(x) /\ x.val # nan THEN Str(GenderMatch(x)[1]) ELSE x

\* Line 65: process.extractOne(x, race_options)
RaceMatch(x) == ExtractOne(x.val, race_options)

RaceLambda(x) ==
    IF NotNa(x) /\ x.val # nan THEN Str(RaceMatch(x)[1]) ELSE x

\* Line 72: process.extractOne(x, insurance_options)
InsuranceMatch(x) == ExtractOne(x.val, insurance_options)

InsuranceLambda(x) ==
    IF NotNa(x) /\ x.val # nan THEN Str(InsuranceMatch(x)[1]) ELSE x

\* Line 87: process.extractOne(x, marital_options)
MaritalMatch(x) == ExtractOne(x.val, marital_options)

MaritalLambda(x) ==
    IF NotNa(x) /\ x.val # nan THEN Str(MaritalMatch(x)[1]) ELSE x

\* Line 98: process.extractOne(x.lower(), [i.lower() for i in assistance_options])
AssistanceMatch(x) == ExtractOne(Lower(x.val), LoweredAssistanceOptions)

AssistanceLambda(x) ==
    IF NotNa(x) THEN Str(AssistanceMatch(x)[1]) ELSE x

\* str(x) of a cell that was not converted with astype
PyStr(c) == AsTypeStr(c).val

HispanicLambda(x) ==
    IF ContainsNon(Lower(PyStr(x))) THEN Str(<<"N","o">>)
    ELSE IF NotNa(x) THEN Str(<<"Y","e","s">>)
    ELSE NaN

\* The income thresholds, in cents.
Income12000 == 1200000

Income47000 == 4700000

Income100000 == 10000000

\* df['Total Household Gross Monthly Income'] * 12 (an amount is kept in cents)
Annualize(c) == IF c.kind = "num" THEN Num(c.val[1] * 12) ELSE NaN

\* A comparison with NaN is False.
NumLe(c, n) == c.kind = "num" /\ c.val[1] <= n

NumLt(n, c) == c.kind = "num" /\ n < c.val[1]

\* The same with the first bound excluded.
IncomeLevelLambdaStrict(x) ==
    IF x.kind = "num" /\ x.val[1] < Income12000 THEN Str(<<"$","0","-","$","1","2",",","0","0","0">>)
    ELSE IF NumLt(Income12000, x) /\ NumLe(x, Income47000) THEN Str(<<"$","1","2",",","0","0","1","-","$","4","7",",","0","0","0">>)
    ELSE IF NumLt(Income47000, x) /\ NumLe(x, Income100000) THEN Str(<<"$","4","7",",","0","0","1","-","$","1","0","0",",","0","0","0">>)
    ELSE IF NumLt(Income100000, x) THEN Str(<<"$","1","0","0",",","0","0","0","+">>)
    ELSE NA

\* The labels are spelt with "-" for the en dash of the source.
IncomeLevelLambda(x) ==
    IF NumLe(x, Income12000) THEN Str(<<"$","0","-","$","1","2",",","0","0","0">>)
    ELSE IF NumLt(Income12000, x) /\ NumLe(x, Income47000) THEN Str(<<"$","1","2",",","0","0","1","-","$","4","7",",","0","0","0">>)
    ELSE IF NumLt(Income47000, x) /\ NumLe(x, Income100000) THEN Str(<<"$","4","7",",","0","0","1","-","$","1","0","0",",","0","0","0">>)
    ELSE IF NumLt(Income100000, x) THEN Str(<<"$","1","0","0",",","0","0","0","+">>)
    ELSE NA

\* The half days of 2024, a leap year.
TicksIn2024 == 732

\* Series.dt.year of one cell
YearOf(c) ==
    IF c.kind = "ts" THEN Num(IF c.val[1] < TicksIn2024 THEN 2024 ELSE 2025) ELSE NaN

\* The same with the quotient rounded towards zero.
DaysBetweenTruncated(a, b) ==
    IF a.kind = "ts" /\ b.kind = "ts"
    THEN Num(IF a.val[1] >= b.val[1] THEN (a.val[1] - b.val[1]) \div 2
             ELSE -((b.val[1] - a.val[1]) \div 2))
    ELSE NaN

\* (a - b).dt.days of one row: the days component of the Timedelta, the
\* floor of the elapsed time in days.
DaysBetween(a, b) ==
    IF a.kind = "ts" /\ b.kind = "ts" THEN Num((a.val[1] - b.val[1]) \div 2) ELSE NaN

TimeToSupport(df) ==
    [i \in DOMAIN df["Grant Req Date"] |->
        DaysBetween(df["Payment Submitted?"][i], df["Grant Req Date"][i])]

(***************************************************************************)
(* The workbooks the model fetches.  Every column has the same number of   *)
(* sample cells (a blank cell is NaN); row r of a sheet takes, in every    *)
(* column, the sample its index picks.  Incomes are in cents.              *)
(***************************************************************************)
Samples ==
    ("Patient ID#" :>
        <<Num(1),
          Num(1),
          Num(2),
          Num(2),
          Num(3),
          Num(3),
          Num(4),
          Num(4),
          Num(5)>>)
    @@ ("Grant Req Date" :>
        <<Ts(0),
          Ts(1),
          Ts(740),
          NaN,
          Str(<<"M","i","s","s","i","n","g">>),
          Str(<<"z","z","z">>),
          Ts(19),
          Ts(0),
          Ts(0)>>)
    @@ ("Request Status" :>
        <<Str(<<"p","e","n","d","i","n","g">>),
          Str(<<"P","E","N","D","I","N","G">>),
          Str(<<" ","P","e","n","d","i","n","g"," ">>),
          NaN,
          Str(<<"M","I","S","S","I","N","G">>),
          Str(<<"m","i","s","s","i","n","g">>),
          Str(<<"n","a","n">>),
          Str(<<"N","A","N">>),
          Str(<<"a","p","p","r","o","z","z","z","z">>)>>)
    @@ ("Payment Submitted?" :>
        <<Ts(18),
          Ts(18),
          Ts(758),
          Ts(18),
          Str(<<"M","i","s","s","i","n","g">>),
          Str(<<"Y","e","s">>),
          Ts(18),
          NaN,
          Ts(19)>>)
    @@ ("Application Signed?" :>
        <<Str(<<"y","e","s">>),
          Str(<<"Y","E","S">>),
          Str(<<"Y","e","s">>),
          NaN,
          Str(<<"M","i","s","s","i","n","g">>),
          Str(<<"z","z","z">>),
          Str(<<"N","/","A">>),
          Str(<<"n","/","a">>),
          Str(<<"n","o">>)>>)
    @@ ("Pt State" :>
        <<Str(<<"N","e","b","r","a","s","k","a">>),
          Str(<<"N","E","B","R","A","S","K","A">>),
          Str(<<"n","e","b","r","a","s","k","a">>),
          NaN,
          Str(<<"m","i","s","s","i","n","g">>),
          Str(<<"T","e","x","a","s">>),
          Str(<<"z","z","z">>),
          Str(<<"N","E">>),
          Str(<<"S","o","u","t","h"," ","D","a","k","o","t","a">>)>>)
    @@ ("Total Household Gross Monthly Income" :>
        <<Num(100000),
          Num(100001),
          Num(391667),
          NaN,
          Str(<<"M","i","s","s","i","n","g">>),
          Str(<<"a","b","c">>),
          Num(833333),
          Num(833334),
          Num(391666)>>)
    @@ ("Gender" :>
        <<Str(<<"m","a","l","e">>),
          Str(<<"M","A","L","E">>),
          Str(<<"M","a","n">>),
          NaN,
          Str(<<"M","i","s","s","i","n","g">>),
          Str(<<"z","z","z">>),
          Str(<<"f","e","m","a","l">>),
          Str(<<"N","A","N">>),
          Str(<<"n","o","n","b","i","n","a","r","y">>)>>)
    @@ ("Race" :>
        <<Str(<<"W","h","i","t","e">>),
          Str(<<"W","H","I","T","E">>),
          Str(<<"w","h","i","t","e">>),
          NaN,
          Str(<<"M","I","S","S","I","N","G">>),
          Str(<<"z","z","z">>),
          Str(<<"w","h","i","y","z">>),
          Str(<<"A","s","i","a","n">>),
          Str(<<"t","w","o"," ","o","r"," ","m","o","r","e">>)>>)
    @@ ("Insurance Type" :>
        <<Str(<<"m","e","d","i","c","a","r","e"," ","&"," ","m","e","d","i","c","a","i","d">>),
          Str(<<"M","E","D","I","C","A","R","E">>),
          Str(<<"M","e","d","i","c","a","i","d">>),
          NaN,
          Str(<<"M","i","s","s","i","n","g">>),
          Str(<<"z","z","z">>),
          Str(<<"n","o","n","e">>),
          Str(<<"p","r","i","v","a","t","e">>),
          Str(<<"u","n","k","n","o","w","n">>)>>)
    @@ ("Amount" :>
        <<Num(100),
          Num(250),
          Str(<<"a","b","c">>),
          NaN,
          Str(<<"M","i","s","s","i","n","g">>),
          Num(75),
          Num(0),
          Num(300),
          Num(40)>>)
    @@ ("Marital Status" :>
        <<Str(<<"s","i","n","g","l","e">>),
          Str(<<"S","I","N","G","L","E">>),
          Str(<<"S","i","n","g","l","e">>),
          NaN,
          Str(<<"m","i","s","s","i","n","g">>),
          Str(<<"z","z","z">>),
          Str(<<"p","a","r","t","n","e","r">>),
          Str(<<"m","a","r","r","i","e","d">>),
          Str(<<"d","o","m","e","s","t","i","c"," ","p","a","r","t","n","e","r","s","h","i","p">>)>>)
    @@ ("Hispanic/Latino" :>
        <<Str(<<"N","o","n","-","H","i","s","p","a","n","i","c">>),
          Str(<<"H","I","S","P","A","N","I","C">>),
          Str(<<"n","o","n"," ","h","i","s","p","a","n","i","c">>),
          NaN,
          Str(<<"M","i","s","s","i","n","g">>),
          Str(<<"z","z","z">>),
          Str(<<"Y","e","s">>),
          Str(<<"N","o">>),
          Str(<<"N","o","n","e">>)>>)
    @@ ("Type of Assistance (CLASS)" :>
        <<Str(<<"G","a","s">>),
          Str(<<"G","A","S">>),
          Str(<<"g","a","s">>),
          NaN,
          Str(<<"M","I","S","S","I","N","G">>),
          Str(<<"z","z","z">>),
          Str(<<"n","a","n">>),
          Str(<<"N","A","N">>),
          Str(<<"F","o","o","d","/","G","r","o","c","e","r","i","e","s">>)>>)
    @@ ("Remaining Balance" :>
        <<Num(0),
          Num(50),
          Str(<<"a","b","c">>),
          NaN,
          Str(<<"M","i","s","s","i","n","g">>),
          Str(<<"1","2">>),
          Num(0),
          Num(20),
          Num(0)>>)

NumSamples == Len(Samples["Gender"])

\* The number of rows of a sheet.
NumRows == 2

\* The headers of the workbook before the rename, and a sheet that lacks most
\* columns (no request date, so no Year and no Time to Support).
LegacyHeaders ==
    { "Patient ID#", "Grant Req Date", "Request Status", "Payment Submitted",
      "Application Signed", "State", "Total Household Gross Monthly Income",
      "Gender", "Race", "Insurance Type", "Amount", "Marital Status",
      "Hispanic/Latino", "Type of Assistance (CLASS)", "Remaining Balance" }

SparseHeaders ==
    { "Patient ID#", "Request Status", "Application Signed?", "Pt State",
      "Payment Submitted?", "Amount", "Remaining Balance" }

Sheet(headers, rows) ==
    [h \in headers |-> [i \in 1..NumRows |-> Samples[RenamedColumn(h)][rows[i]]]]

Sheets ==
    { Sheet(h, rows) : h \in {LegacyHeaders, SparseHeaders},
                       rows \in [1..NumRows -> 1..NumSamples] }

\* The cells a column's lambda can meet: the samples as read, with "missing"
\* replaced, as str.
Inputs(name) ==
    { AsTypeStr(ReplaceMissingCell(ReadCell(Samples[name][k]))) : k \in 1..NumSamples }

\* Each lambda is evaluated once for each cell it can meet.
RequestStatusApplied == [x \in Inputs("Request Status") |-> RequestStatusLambda(x)]

ApplicationSignedApplied == [x \in Inputs("Application Signed?") |-> ApplicationSignedLambda(x)]

PtStateApplied == [x \in Inputs("Pt State") |-> PtStateLambda(x)]

GenderApplied == [x \in Inputs("Gender") |-> GenderLambda(x)]

RaceApplied == [x \in Inputs("Race") |-> RaceLambda(x)]

InsuranceApplied == [x \in Inputs("Insurance Type") |-> InsuranceLambda(x)]

MaritalApplied == [x \in Inputs("Marital Status") |-> MaritalLambda(x)]

AssistanceApplied == [x \in Inputs("Type of Assistance (CLASS)") |-> AssistanceLambda(x)]

(***************************************************************************)
(* import_excel_from_github: what its cleaning passes do to the df.        *)
(***************************************************************************)
\* df[name] = df[name].astype(str).apply(lambda), when the column exists
Normalize(df, name, applied) ==
    IF HasColumn(df, name)
    THEN SetColumn(df, name, [i \in DOMAIN df[name] |-> applied[AsTypeStr(df[name][i])]])
    ELSE df

\* df[name] = f(df[name]) cell by cell, when the column exists
Convert(df, name, F(_)) ==
    IF HasColumn(df, name) THEN SetColumn(df, name, Apply(df[name], F)) ELSE df

CleanIncome(df) ==
    IF HasColumn(df, "Total Household Gross Monthly Income")
    THEN LET monthly == Apply(df["Total Household Gross Monthly Income"], ToNumeric)
             annual == Apply(monthly, Annualize)
         IN  SetColumn(
               SetColumn(
                 SetColumn(df, "Total Household Gross Monthly Income", monthly),
                 "Annualized Income", annual),
               "Income Level", Apply(annual, IncomeLevelLambda))
    ELSE df

CleanGrantReqDate(df) ==
    IF HasColumn(df, "Grant Req Date")
    THEN LET dates == Apply(df["Grant Req Date"], ToDatetime)
         IN  SetColumn(SetColumn(df, "Grant Req Date", dates), "Year", Apply(dates, YearOf))
    ELSE df

CleanTimeToSupport(df) ==
    IF HasColumn(df, "Payment Submitted?") /\ HasColumn(df, "Grant Req Date")
    THEN SetColumn(df, "Time to Support", TimeToSupport(df))
    ELSE df

(***************************************************************************)
(* The script: every run of the page calls the cached                      *)
(* import_excel_from_github() and renders the page picked in the sidebar.  *)
(***************************************************************************)
\* The runs of the script the model follows.
MaxRuns == 2

VARIABLES
    source,       \* the workbook behind github_raw_url
    cache,        \* st.cache_data's entry for import_excel_from_github(): <<>> or <<entry>>
    df,           \* the df in hand: the function's while it cleans, then the script's
    pc,           \* "start", then the cleaning pass import_excel_from_github is at,
                  \* "loaded" (the script's df assigned), "done" or "crashed" (page over)
    page,         \* the page rendered in this run, "none" before
    run,          \* the number of the current run
    fetches,      \* calls of requests.get so far
    passes,       \* executions of the cleaning passes so far
    fetchFailed,  \* whether requests.get raised in this run
    shown,        \* what the import wrote to the page in this run
    reads,        \* the columns the page subscripted df with in this run
    error,        \* the exception the page raised in this run, "none" if none
    returned,     \* the value each call of import_excel_from_github() returned, in order
    dirty         \* whether a page of an earlier run changed its df

vars == <<source, cache, df, pc, page, run, fetches, passes, fetchFailed, shown,
          reads, error, returned, dirty>>

Init ==
    /\ source \in Sheets
    /\ cache = <<>>
    /\ df = EmptyDataFrame
    /\ pc = "start"
    /\ page = "none"
    /\ run = 1
    /\ fetches = 0
    /\ passes = 0
    /\ fetchFailed = FALSE
    /\ shown = "none"
    /\ reads = {}
    /\ error = "none"
    /\ returned = <<>>
    /\ dirty = FALSE

\* @st.cache_data: a call with arguments seen before is answered from the entry.
CacheHit(c) == c # <<>>

\* The same with the stored object itself handed out, as st.cache_resource does.
EntryAfterCallerWriteShared(c, written) ==
    IF c = <<>> THEN c ELSE <<[value |-> written, written |-> c[1].written]>>

\* @st.cache_data hands every caller its own copy of the stored value: what
\* the caller writes into the DataFrame it got does not reach the entry.
EntryAfterCallerWrite(c, written) == c

\* Lines 13 to 24: the fetch succeeds; the sheet is read, "missing" replaced
\* and the columns renamed.
ImportFetchOk ==
    /\ pc = "start"
    /\ ~CacheHit(cache)
    /\ df' = Rename(ReplaceMissing(ReadExcel(source)))
    /\ fetches' = fetches + 1
    /\ passes' = passes + 1
    /\ fetchFailed' = FALSE
    /\ shown' = "Excel file successfully loaded"
    /\ pc' = "Request Status"
    /\ UNCHANGED <<source, cache, page, run, reads, error, returned, dirty>>

\* One cleaning pass: the df it leaves, and the pass that follows.
Pass(at, newDf, next) ==
    /\ pc = at
    /\ df' = newDf
    /\ pc' = next
    /\ UNCHANGED <<source, cache, page, run, fetches, passes, fetchFailed, shown,
                   reads, error, returned, dirty>>

\* Lines 26 to 30
CleanRequestStatus ==
    Pass("Request Status",
         Normalize(df, "Request Status", RequestStatusApplied), "Application Signed?")

\* Lines 32 to 35
CleanApplicationSigned ==
    Pass("Application Signed?",
         Normalize(df, "Application Signed?", ApplicationSignedApplied), "Pt State")

\* Lines 37 to 44
CleanPtState ==
    Pass("Pt State", Normalize(df, "Pt State", PtStateApplied), "Income")

\* Lines 46 to 53
CleanIncomeLevel ==
    Pass("Income", CleanIncome(df), "Gender")

\* Lines 55 to 58
CleanGender ==
    Pass("Gender", Normalize(df, "Gender", GenderApplied), "Race")

\* Lines 60 to 65
CleanRace ==
    Pass("Race", Normalize(df, "Race", RaceApplied), "Insurance Type")

\* Lines 67 to 72
CleanInsurance ==
    Pass("Insurance Type", Normalize(df, "Insurance Type", InsuranceApplied),
         "Payment Submitted?")

\* Lines 74 to 75
CleanPaymentSubmitted ==
    Pass("Payment Submitted?", Convert(df, "Payment Submitted?", ToDatetime),
         "Grant Req Date")

\* Lines 77 to 79
CleanGrantDate ==
    Pass("Grant Req Date", CleanGrantReqDate(df), "Amount")

\* Lines 81 to 82
CleanAmount ==
    Pass("Amount", Convert(df, "Amount", ToNumeric), "Marital Status")

\* Lines 84 to 87
CleanMarital ==
    Pass("Marital Status", Normalize(df, "Marital Status", MaritalApplied),
         "Hispanic/Latino")

\* Lines 89 to 91
CleanHispanic ==
    Pass("Hispanic/Latino", Convert(df, "Hispanic/Latino", HispanicLambda),
         "Type of Assistance (CLASS)")

\* Lines 93 to 98
CleanAssistance ==
    Pass("Type of Assistance (CLASS)",
         Normalize(df, "Type of Assistance (CLASS)", AssistanceApplied), "Time to Support")

\* Lines 100 to 101
CleanElapsedDays ==
    Pass("Time to Support", CleanTimeToSupport(df), "return")

\* Line 103: the cleaned df is returned; the cache stores it with the message
\* the function wrote, and the script's df (line 112) is the value returned.
ImportReturn ==
    /\ pc = "return"
    /\ cache' = <<[value |-> df, written |-> shown]>>
    /\ returned' = Append(returned, df)
    /\ pc' = "loaded"
    /\ UNCHANGED <<source, df, page, run, fetches, passes, fetchFailed, shown,
                   reads, error, dirty>>

\* Lines 13 to 15 and 105 to 107: requests.get or raise_for_status raises a
\* RequestException; the handler writes the error and returns pd.DataFrame(),
\* which the cache stores like any other return value.
ImportFetchFail ==
    /\ pc = "start"
    /\ ~CacheHit(cache)
    /\ df' = EmptyDataFrame
    /\ cache' = <<[value |-> EmptyDataFrame, written |-> "Error"]>>
    /\ returned' = Append(returned, EmptyDataFrame)
    /\ fetches' = fetches + 1
    /\ fetchFailed' = TRUE
    /\ shown' = "Error"
    /\ pc' = "loaded"
    /\ UNCHANGED <<source, page, run, passes, reads, error, dirty>>

\* Line 112 on a later run: the stored value is returned and the stored
\* message replayed; the body of the function does not run.
ImportCached ==
    /\ pc = "start"
    /\ CacheHit(cache)
    /\ df' = cache[1].value
    /\ returned' = Append(returned, cache[1].value)
    /\ shown' = cache[1].written
    /\ pc' = "loaded"
    /\ UNCHANGED <<source, cache, page, run, fetches, passes, fetchFailed, reads, error, dirty>>

\* Line 115, "if df is not None": import_excel_from_github returns a
\* DataFrame on every path, the empty one included.
IsNotNone(d) == TRUE

\* df[c] for each c of cols in turn: the columns subscripted, and the KeyError
\* of the first one that is missing.
RECURSIVE Subscript(_, _, _)
Subscript(d, cols, seen) ==
    IF cols = <<>> THEN [reads |-> seen, error |-> "none"]
    ELSE IF HasColumn(d, Head(cols)) THEN Subscript(d, Tail(cols), seen \cup {Head(cols)})
    ELSE [reads |-> seen \cup {Head(cols)}, error |-> "KeyError"]

\* The end of a page: what it read, whether it raised, the df it leaves.
Rendered(name, result, newDf) ==
    /\ page' = name
    /\ reads' = result.reads
    /\ error' = result.error
    /\ pc' = IF result.error = "none" THEN "done" ELSE "crashed"
    /\ df' = newDf
    /\ cache' = EntryAfterCallerWrite(cache, newDf)
    /\ dirty' = (dirty \/ newDf # df)
    /\ UNCHANGED <<source, run, fetches, passes, fetchFailed, shown, returned>>

NoRead == [reads |-> {}, error |-> "none"]

\* Lines 125 to 142
PageHome ==
    /\ pc = "loaded"
    /\ IsNotNone(df)
    /\ Rendered("Home", NoRead, df)

\* Lines 144 to 161
PageDemographicBreakout ==
    /\ pc = "loaded"
    /\ IsNotNone(df)
    /\ Rendered("Demographic Breakout",
                Subscript(df, <<"Year", "Pt State", "Amount", "Gender", "Income Level",
                                "Insurance Type", "Marital Status", "Hispanic/Latino">>, {}),
                df)

\* Lines 163 to 176
PageGrantTimeDifference ==
    /\ pc = "loaded"
    /\ IsNotNone(df)
    /\ IF HasColumn(df, "Grant Req Date") /\ HasColumn(df, "Payment Submitted?")
       THEN Rendered("Grant Time Difference",
                     [reads |-> {"Payment Submitted?", "Grant Req Date", "Time to Support"},
                      error |-> "none"],
                     SetColumn(df, "Time to Support", TimeToSupport(df)))
       ELSE Rendered("Grant Time Difference", NoRead, df)

\* Lines 178 to 228
PageRemainingBalance ==
    /\ pc = "loaded"
    /\ IsNotNone(df)
    /\ IF HasColumn(df, "Remaining Balance")
       THEN LET converted == Convert(df, "Remaining Balance", ToNumeric)
                first == Subscript(converted, <<"Remaining Balance", "Year">>, {})
                counts == Subscript(converted, <<"Patient ID#">>, first.reads)
                sums == Subscript(converted, <<"Type of Assistance (CLASS)", "Amount">>,
                                  counts.reads)
            IN  Rendered("Remaining Balance Analysis",
                         IF ~HasColumn(converted, "Year")
                         THEN [reads |-> {"Remaining Balance"}, error |-> "none"]
                         ELSE IF counts.error # "none" THEN counts
                         ELSE IF HasColumn(converted, "Type of Assistance (CLASS)") THEN sums
                         ELSE counts,
                         converted)
       ELSE Rendered("Remaining Balance Analysis", NoRead, df)

\* Lines 230 to 238
PageApplicationSigned ==
    /\ pc = "loaded"
    /\ IsNotNone(df)
    /\ IF HasColumn(df, "Request Status")
       THEN Rendered("Application Signed",
                     Subscript(df, <<"Request Status", "Patient ID#", "Application Signed?",
                                     "Year">>, {}),
                     df)
       ELSE Rendered("Application Signed", NoRead, df)

\* Lines 240 to 286
PageImpactSummary ==
    /\ pc = "loaded"
    /\ IsNotNone(df)
    /\ IF \A c \in {"Amount", "Patient ID#", "Time to Support", "Application Signed?",
                    "Remaining Balance", "Pt State"} : HasColumn(df, c)
       THEN Rendered("Impact & Progress Summary",
                     Subscript(df, <<"Year", "Amount", "Patient ID#", "Time to Support",
                                     "Application Signed?", "Remaining Balance", "Pt State">>,
                               {}),
                     df)
       ELSE Rendered("Impact & Progress Summary", NoRead, df)

\* The user acts on a widget (or the page reloads): the script runs again
\* from the top, in the same server process, so with the same cache.
Rerun ==
    /\ pc \in {"done", "crashed"}
    /\ run < MaxRuns
    /\ run' = run + 1
    /\ pc' = "start"
    /\ df' = EmptyDataFrame
    /\ page' = "none"
    /\ fetchFailed' = FALSE
    /\ shown' = "none"
    /\ reads' = {}
    /\ error' = "none"
    /\ UNCHANGED <<source, cache, fetches, passes, returned, dirty>>

Next ==
    \/ ImportFetchOk
    \/ CleanRequestStatus
    \/ CleanApplicationSigned
    \/ CleanPtState
    \/ CleanIncomeLevel
    \/ CleanGender
    \/ CleanRace
    \/ CleanInsurance
    \/ CleanPaymentSubmitted
    \/ CleanGrantDate
    \/ CleanAmount
    \/ CleanMarital
    \/ CleanHispanic
    \/ CleanAssistance
    \/ CleanElapsedDays
    \/ ImportReturn
    \/ ImportFetchFail
    \/ ImportCached
    \/ PageHome
    \/ PageDemographicBreakout
    \/ PageGrantTimeDifference
    \/ PageRemainingBalance
    \/ PageApplicationSigned
    \/ PageImpactSummary
    \/ Rerun

Spec == Init /\ [][Next]_vars

(***************************************************************************)
(* What the claims are stated over.                                        *)
(***************************************************************************)
\* import_excel_from_github returned a cleaned sheet, which the cache holds.
Loaded == cache # <<>> /\ cache[1].written # "Error"

Result == cache[1].value

Rows == 1..NumRows

SourceHas(name) == \E h \in DOMAIN source : RenamedColumn(h) = name

\* The workbook's cell of row i in the column the code knows as name.
Raw(name, i) == source[CHOOSE h \in DOMAIN source : RenamedColumn(h) = name][i]

\* A raw cell that counts as missing: blank, an NA text, or "missing" in any case.
IsMissing(c) == ReplaceMissingCell(ReadCell(c)).kind = "NaN"

IsText(c) == c.kind = "str" /\ ~IsMissing(c)

AsCells(options) == {Str(options[i]) : i \in DOMAIN options}

\* The categorical fields with their option sets as stored.
OptionCells ==
    ("Request Status" :> AsCells(request_status_options))
    @@ ("Application Signed?" :> AsCells(application_signed_options))
    @@ ("Gender" :> AsCells(gender_options))
    @@ ("Race" :> AsCells(race_options))
    @@ ("Insurance Type" :> AsCells(insurance_options))
    @@ ("Marital Status" :> AsCells(marital_options))
    @@ ("Type of Assistance (CLASS)" :> AsCells(assistance_options))

CategoricalFields == DOMAIN OptionCells

\* The value a field gives a missing cell.
MissingMarker(f) == IF f = "Application Signed?" THEN Str(<<"N","/","A">>) ELSE NaN

\* The score process.extractOne gave the best option, for each cell a field's
\* lambda can meet.
BestScore ==
    ("Request Status" :> [x \in Inputs("Request Status") |-> RequestStatusMatch(x)[2]])
    @@ ("Application Signed?" :>
          [x \in Inputs("Application Signed?") |-> ApplicationSignedMatch(x)[2]])
    @@ ("Pt State" :> [x \in Inputs("Pt State") |-> PtStateMatch(x)[2]])
    @@ ("Gender" :> [x \in Inputs("Gender") |-> GenderMatch(x)[2]])
    @@ ("Race" :> [x \in Inputs("Race") |-> RaceMatch(x)[2]])
    @@ ("Insurance Type" :> [x \in Inputs("Insurance Type") |-> InsuranceMatch(x)[2]])
    @@ ("Marital Status" :> [x \in Inputs("Marital Status") |-> MaritalMatch(x)[2]])
    @@ ("Type of Assistance (CLASS)" :>
          [x \in Inputs("Type of Assistance (CLASS)") |-> AssistanceMatch(x)[2]])

\* The fields of f's kind that the returned sheet has.
Present(fields) == {f \in fields : Loaded /\ HasColumn(Result, f)}

(***************************************************************************)
(* C1.  Every cell of a normalised categorical column is a member of the   *)
(* field's option set (as stored or lower-cased), the field's default, or  *)
(* NaN.  The code breaks it: a blank Gender, Race, Insurance Type or       *)
(* Marital Status cell comes out as the text "nan".                        *)
(***************************************************************************)
C1_OutputsAreCanonical ==
    \A f \in Present(CategoricalFields) : \A i \in Rows :
        Result[f][i] \in OptionCells[f] \cup {Str(Lower(o.val)) : o \in OptionCells[f]}
                            \cup {NaN, MissingMarker(f)}

(***************************************************************************)
(* C2.  A non-missing value whose best score is below the threshold of 60  *)
(* resolves to the default, NaN; an option is emitted only from 60 up.     *)
(* The code passes no threshold to process.extractOne and emits the best   *)
(* option whatever its score.                                              *)
(***************************************************************************)
C2_ThresholdDecides ==
    \A f \in Present(CategoricalFields) : \A i \in Rows :
        (IsText(Raw(f, i)) /\ BestScore[f][Raw(f, i)] < 60) => Result[f][i] = NaN

(***************************************************************************)
(* C3.  A missing raw cell (blank, or "missing" in any case) of a          *)
(* normalised field yields the missing marker, "N/A" for Application       *)
(* Signed?.  The code converts the column with astype(str) before it tests *)
(* pd.notna, so the test never fails.                                      *)
(***************************************************************************)
C3_MissingPropagates ==
    \A f \in Present(CategoricalFields \cup {"Pt State"}) : \A i \in Rows :
        IsMissing(Raw(f, i)) => Result[f][i] = MissingMarker(f)

(***************************************************************************)
(* C4.  A Pt State text with no acceptable match among the state names     *)
(* (best score below 60) is returned unchanged.  The code maps it to the   *)
(* postal code of whichever name scored best.                              *)
(***************************************************************************)
C4_UnmappableStateKept ==
    \A f \in Present({"Pt State"}) : \A i \in Rows :
        (IsText(Raw(f, i)) /\ BestScore[f][Raw(f, i)] < 60) => Result[f][i] = Raw(f, i)

(***************************************************************************)
(* C5.  In the fields the code lower-cases before matching (Request        *)
(* Status, Application Signed?, Type of Assistance), a text of the sheet   *)
(* as read, its upper-cased form and its lower-cased form get the same     *)
(* output, the decision that the value is missing included.                *)
(***************************************************************************)
CaseFoldedFields == {"Request Status", "Application Signed?", "Type of Assistance (CLASS)"}

\* Two texts of the DataFrame as read, the second the upper- or lower-cased
\* form of the first.
CaseVariant(c, d) ==
    /\ ReadCell(c).kind = "str"
    /\ ReadCell(d).kind = "str"
    /\ (d.val = Upper(c.val) \/ d.val = Lower(c.val))

C6_OptionsAreFixedPoints ==
    \A f \in Present(CategoricalFields) : \A i \in Rows :
        (IsText(Raw(f, i)) /\ Raw(f, i) \in OptionCells[f]) => Result[f][i] = Raw(f, i)

(***************************************************************************)
(* C7.  Income Level is "$0-$12,000" when the annualised income x is at    *)
(* most 12000, "$12,001-$47,000" when 12000 < x <= 47000,                  *)
(* "$47,001-$100,000" when 47000 < x <= 100000 and "$100,000+" above; a    *)
(* missing or unparsable income gives a missing level.  (Cents here.)      *)
(***************************************************************************)
Monthly == "Total Household Gross Monthly Income"

IsNumericText(c) == c.kind = "str" /\ IsDigits(Strip(c.val))

C7_IncomeBracket ==
    \A f \in Present({"Income Level"}) : \A i \in Rows :
        LET raw == Raw(Monthly, i)
            x == 12 * raw.val[1]
        IN  /\ (raw.kind = "num" /\ x <= 1200000) =>
                  Result[f][i] = Str(<<"$","0","-","$","1","2",",","0","0","0">>)
            /\ (raw.kind = "num" /\ 1200000 < x /\ x <= 4700000) =>
                  Result[f][i] = Str(<<"$","1","2",",","0","0","1","-","$","4","7",",","0","0","0">>)
            /\ (raw.kind = "num" /\ 4700000 < x /\ x <= 10000000) =>
                  Result[f][i] = Str(<<"$","4","7",",","0","0","1","-","$","1","0","0",",","0","0","0">>)
            /\ (raw.kind = "num" /\ 10000000 < x) =>
                  Result[f][i] = Str(<<"$","1","0","0",",","0","0","0","+">>)
            /\ (raw.kind # "num" /\ ~IsNumericText(raw)) => Result[f][i] = NA

\* A sheet with an income of exactly 12000 a year and one that does not parse.
C7_Witness ==
    \E f \in Present({"Income Level"}) : \E i, j \in Rows :
        /\ Raw(Monthly, i) = Num(100000)
        /\ Result[f][i] = Str(<<"$","0","-","$","1","2",",","0","0","0">>)
        /\ Raw(Monthly, j) = Str(<<"a","b","c">>)
        /\ Result[f][j] = NA

(***************************************************************************)
(* C8.  As claimed: Time to Support is the difference in calendar days     *)
(* between Payment Submitted? and Grant Req Date, times of day or not.     *)
(* Refuted by a request at noon and a payment at midnight nine dates later *)
(* (the code gives 8), or earlier on the same date (the code gives -1).    *)
(***************************************************************************)
BothDates(i) ==
    /\ Raw("Payment Submitted?", i).kind = "ts"
    /\ Raw("Grant Req Date", i).kind = "ts"

Paid(i) == Raw("Payment Submitted?", i).val[1]

Requested(i) == Raw("Grant Req Date", i).val[1]

\* The date of a Timestamp, in days, and its time of day, in half days.
DateOf(t) == t \div 2

TimeOfDay(t) == t % 2

C8_CalendarDays ==
    \A f \in Present({"Time to Support"}) : \A i \in Rows :
        BothDates(i) => Result[f][i] = Num(DateOf(Paid(i)) - DateOf(Requested(i)))

(***************************************************************************)
(* C8, amended.  Time to Support is the number of whole days elapsed from  *)
(* Grant Req Date to Payment Submitted? (the elapsed time in days, rounded *)
(* down), which is the difference in calendar days when the two values     *)
(* carry the same time of day; it is missing when either date is missing   *)
(* or unparsable.  The same holds of the column the Grant Time Difference  *)
(* page assigns.                                                           *)
(***************************************************************************)
WholeDaysElapsed(c, i) ==
    IF BothDates(i)
    THEN /\ c.kind = "num"
         /\ 2 * c.val[1] <= Paid(i) - Requested(i)
         /\ Paid(i) - Requested(i) < 2 * c.val[1] + 2
         /\ (TimeOfDay(Paid(i)) = TimeOfDay(Requested(i)) =>
                c.val[1] = DateOf(Paid(i)) - DateOf(Requested(i)))
    ELSE c = NaN

C8_WholeDaysElapsed ==
    /\ \A f \in Present({"Time to Support"}) : \A i \in Rows :
          WholeDaysElapsed(Result[f][i], i)
    /\ (pc = "done" /\ page = "Grant Time Difference" /\ HasColumn(df, "Time to Support")) =>
          \A i \in Rows : WholeDaysElapsed(df["Time to Support"][i], i)

\* A sheet with 2024-01-01 and 2024-01-10 (9 days), and a row with a date that
\* does not parse.
C8_Witness ==
    \E f \in Present({"Time to Support"}) : \E i, j \in Rows :
        /\ BothDates(i)
        /\ Requested(i) = 0
        /\ Paid(i) = 18
        /\ Result[f][i] = Num(9)
        /\ ~BothDates(j)
        /\ Result[f][j] = NaN

(***************************************************************************)
(* C9.  When the fetch raised in this run, no page computation subscripts  *)
(* the dataset the caller got.  The code returns pd.DataFrame(), which is  *)
(* not None, so the Demographic Breakout page evaluates df['Year'] on it.  *)
(***************************************************************************)
C9_FetchFailureHalts == fetchFailed => (reads = {} /\ error = "none")

(***************************************************************************)
(* C10.  The fetch and the cleaning passes run at most once; every call of *)
(* import_excel_from_github returns what the first returned, whatever the  *)
(* pages assigned into their df in between.                                *)
(***************************************************************************)
C10_Memoized ==
    /\ fetches <= 1
    /\ passes <= 1
    /\ \A k \in DOMAIN returned : returned[k] = returned[1]

\* A later run got the cleaned sheet again after a page had changed its df.
C10_Witness ==
    /\ Len(returned) >= 2
    /\ returned[1] # EmptyDataFrame
    /\ dirty
    /\ pc = "loaded"

====
